---- MODULE Spec2Model ----
(***************************************************************************)
(* A model of piehook's HookManager (src/piehook/hooks.py): the registry   *)
(* of synchronous and asynchronous hooks, run(), remove(), import_hooks()  *)
(* and set_verbose().                                                      *)
(*                                                                         *)
(* A hook entry is the tuple the code pushes, <<priority, index, func>>.   *)
(* run() is modelled step by step: the snapshot, every call of a           *)
(* synchronous hook, and every handle the asyncio event loop runs for the  *)
(* asynchronous hooks.  funcs and async_funcs keep the whole entry of each *)
(* callable, so that the properties can tell two registrations of one      *)
(* callable apart; run() itself uses the callable only.  A hook is client  *)
(* code: a synchronous hook returns or raises and may call add and remove  *)
(* meanwhile; an asynchronous hook runs from await to await and ends or    *)
(* raises.  Hooks do not call run().                                       *)
(***************************************************************************)
EXTENDS Integers, Sequences, FiniteSets, TLC

\* ---------------------------------------------------------------- bounds
\* The number of registrations a behaviour makes (the cap of _index).
MaxIndex == 3
\* The number of asynchronous hooks registered at a time, over all ids.
MaxAsync == 2

\* The registrations the client program can make, each a decorator site
\* hooks.add(id, priority, is_async)(func): <<id, priority, is_async, func>>.
\* A site can be executed any number of times.
Sites ==
    { <<"x", 0, FALSE, "A">>, <<"x", 5, FALSE, "B">>, <<"x", 0, FALSE, "C">>,
      <<"x", 5, TRUE, "B">>,
      <<"y", 0, FALSE, "A">> }

\* The hook identifiers and callables of the client program.
Ids == {s[1] : s \in Sites}
Funcs == {s[4] : s \in Sites}

VARIABLES
    hooks,           \* self._hooks: id -> list of <<priority, index, func>>
    async_hooks,     \* self._async_hooks: the same for asynchronous hooks
    index,           \* self._index
    imported_hooks,  \* self.imported_hooks
    logger_level,    \* self.logger.level
    handler_level,   \* self.logger.handlers[0].level
    pc,              \* where the client / run() is
    run_id,          \* the id of the run() call in progress
    at_call,         \* history: the entries of run_id when run() was called
    funcs,           \* run(): the ordered synchronous snapshot
    async_funcs,     \* run(): the ordered asynchronous snapshot
    pos,             \* run(): position of the for loop in funcs
    logged,          \* run(): the count of the "Running N hooks" message
    tasks,           \* the state of the asyncio task of each async_funcs[i]
    ready,           \* the event loop's queue of ready handles
    ntodo,           \* handles left in the loop's current iteration
    outer,           \* gather()'s outer future
    nfinished,       \* gather()'s count of finished children
    stopping,        \* the loop's _stopping flag
    trace,           \* history: what the run() in progress has invoked
    outcome,         \* how the last run() ended
    last_import      \* history: the import_hooks call the client has just
                     \* made, until it calls something else

registry == <<hooks, async_hooks, index, imported_hooks>>
logging == <<logger_level, handler_level>>
loop == <<tasks, ready, ntodo, outer, nfinished, stopping>>
call == <<run_id, at_call, funcs, async_funcs, pos, logged, trace, outcome>>
vars == <<hooks, async_hooks, index, imported_hooks, logger_level,
          handler_level, pc, run_id, at_call,
          funcs, async_funcs, pos, logged, tasks,
          ready, ntodo, outer, nfinished, stopping, trace, outcome,
          last_import>>

\* ------------------------------------------------------- tuples and lists
\* Python's < on the entries: lexicographic on (priority, index); the index
\* is unique, so the comparison never reaches the callable.
TupleLess(a, b) ==
    \/ a[1] < b[1]
    \/ a[1] = b[1] /\ a[2] < b[2]

\* heapq._siftdown(heap, 0, pos) with newitem held aside; pos is 1-based.
RECURSIVE SiftDown(_, _, _)
SiftDown(heap, newitem, p) ==
    IF p > 1 /\ TupleLess(newitem, heap[((p - 2) \div 2) + 1])
    THEN LET parentpos == ((p - 2) \div 2) + 1
         IN  SiftDown([heap EXCEPT ![p] = heap[parentpos]], newitem, parentpos)
    ELSE [heap EXCEPT ![p] = newitem]

\* heapq.heappush(heap, item)
HeapPush(heap, item) ==
    SiftDown(Append(heap, item), item, Len(heap) + 1)

\* list.insert of one item into a list sorted in descending order
RECURSIVE InsertDesc(_, _)
InsertDesc(s, item) ==
    IF s = <<>> THEN <<item>>
    ELSE IF TupleLess(Head(s), item) THEN <<item>> \o s
    ELSE <<Head(s)>> \o InsertDesc(Tail(s), item)

\* list.insert of one item into a list sorted in ascending order
RECURSIVE InsertAsc(_, _)
InsertAsc(s, item) ==
    IF s = <<>> THEN <<item>>
    ELSE IF TupleLess(item, Head(s)) THEN <<item>> \o s
    ELSE <<Head(s)>> \o InsertAsc(Tail(s), item)

\* Mutant of SortedReverse: sorted(entries), the reverse flag forgotten.
RECURSIVE SortedReverse_NoReverse(_)
SortedReverse_NoReverse(entries) ==
    IF entries = <<>> THEN <<>>
    ELSE InsertAsc(SortedReverse_NoReverse(Tail(entries)), Head(entries))

\* sorted(entries, reverse=True)
RECURSIVE SortedReverse(_)
SortedReverse(entries) ==
    IF entries = <<>> THEN <<>>
    ELSE InsertDesc(SortedReverse(Tail(entries)), Head(entries))

\* Mutant of WithoutFunc: list.remove semantics, only the first entry that
\* holds func goes.
RECURSIVE WithoutFunc_FirstOnly(_, _)
WithoutFunc_FirstOnly(entries, func) ==
    IF entries = <<>> THEN <<>>
    ELSE IF Head(entries)[3] = func THEN Tail(entries)
    ELSE <<Head(entries)>> \o WithoutFunc_FirstOnly(Tail(entries), func)

\* Mutant of WithoutFunc: the whole list of the id is dropped when func is
\* in it.
WithoutFunc_DropsAll(entries, func) ==
    IF \E i \in 1..Len(entries) : entries[i][3] = func THEN <<>>
    ELSE entries

\* [hook for hook in entries if hook[2] != func]
WithoutFunc(entries, func) ==
    SelectSeq(entries, LAMBDA hook : hook[3] # func)

Range(s) == {s[i] : i \in 1..Len(s)}

RECURSIVE SumLen(_, _)
SumLen(f, S) ==
    IF S = {} THEN 0
    ELSE LET k == CHOOSE k \in S : TRUE
         IN  Len(f[k]) + SumLen(f, S \ {k})

\* ------------------------------------------------------------------ init
\* logging.INFO if not verbose else logging.DEBUG
Level(verbose) == IF verbose THEN "DEBUG" ELSE "INFO"

NoCall == [hooks |-> <<>>, async_hooks |-> <<>>]

\* The client's last call was not import_hooks.
NoImport == [called |-> FALSE, suffix |-> "", loads |-> <<>>,
             raised |-> FALSE]

Init ==
    /\ hooks = [id \in Ids |-> <<>>]
    /\ async_hooks = [id \in Ids |-> <<>>]
    /\ index = 0
    /\ imported_hooks = {}
    /\ logger_level = Level(FALSE)
    /\ handler_level = Level(FALSE)
    /\ pc = "idle"
    /\ run_id = "none"
    /\ at_call = NoCall
    /\ funcs = <<>>
    /\ async_funcs = <<>>
    /\ pos = 0
    /\ logged = 0
    /\ tasks = <<>>
    /\ ready = <<>>
    /\ ntodo = 0
    /\ outer = "pending"
    /\ nfinished = 0
    /\ stopping = FALSE
    /\ trace = <<>>
    /\ outcome = "none"
    /\ last_import = NoImport

\* The registry is called by the client between operations and by a
\* synchronous hook while it executes.
CanCall == pc = "idle" \/ pc = "hook"

\* ----------------------------------------------------------- set_verbose
\* Mutant of SetVerbose: the level of the logger is set, that of its
\* handler is left as it is.
SetVerbose_LoggerOnly(verbose) ==
    /\ pc = "idle"
    /\ logger_level' = Level(verbose)
    /\ last_import' = NoImport
    /\ UNCHANGED <<handler_level, registry, pc, call, loop>>

\* set_verbose(verbose)
SetVerbose(verbose) ==
    /\ pc = "idle"
    /\ logger_level' = Level(verbose)
    /\ handler_level' = Level(verbose)
    /\ last_import' = NoImport
    /\ UNCHANGED <<registry, pc, call, loop>>

\* ------------------------------------------------------------------- add
\* Mutant of Register: the asynchronous collection numbers its entries by a
\* counter of its own, the length of the list.
Register_AsyncUncounted(reg, id, priority, is_async, func) ==
    IF is_async
    THEN [reg EXCEPT
            !.async_hooks[id] = Append(@, <<priority, Len(@), func>>),
            !.index = @ + 1]
    ELSE [reg EXCEPT
            !.hooks[id] = Append(@, <<priority, reg.index, func>>),
            !.index = @ + 1]

\* Mutant of Register: a callable that is already registered under the id,
\* in the collection is_async selects, is not pushed again.
Register_Dedup(reg, id, priority, is_async, func) ==
    LET entries == IF is_async THEN reg.async_hooks[id] ELSE reg.hooks[id]
        item == <<priority, reg.index, func>>
    IN  IF \E k \in 1..Len(entries) : entries[k][3] = func
        THEN [reg EXCEPT !.index = @ + 1]
        ELSE IF is_async
        THEN [reg EXCEPT !.async_hooks[id] = Append(@, item),
                         !.index = @ + 1]
        ELSE [reg EXCEPT !.hooks[id] = Append(@, item), !.index = @ + 1]

\* The decorator's body on the registry reg = [hooks, async_hooks, index]:
\* the push onto the collection is_async selects, and the index counted up.
Register(reg, id, priority, is_async, func) ==
    IF is_async
    THEN [reg EXCEPT
            !.async_hooks[id] = HeapPush(@, <<priority, reg.index, func>>),
            !.index = @ + 1]
    ELSE [reg EXCEPT
            !.hooks[id] = HeapPush(@, <<priority, reg.index, func>>),
            !.index = @ + 1]

Reg == [hooks |-> hooks, async_hooks |-> async_hooks, index |-> index]

\* The registrations stay within the bounds of the model.
InBounds(reg) ==
    /\ reg.index <= MaxIndex
    /\ SumLen(reg.async_hooks, Ids) <= MaxAsync

\* add(id, priority, is_async)(func)
Add(id, priority, is_async, func) ==
    /\ CanCall
    /\ LET reg == Register(Reg, id, priority, is_async, func)
       IN  /\ InBounds(reg)
           /\ hooks' = reg.hooks
           /\ async_hooks' = reg.async_hooks
           /\ index' = reg.index
    /\ last_import' = NoImport
    /\ UNCHANGED <<imported_hooks, logging, pc, call, loop>>

\* ---------------------------------------------------------------- remove
\* remove(id, func)
Remove(id, func) ==
    /\ CanCall
    /\ hooks' = [hooks EXCEPT ![id] = WithoutFunc(@, func)]
    /\ async_hooks' = [async_hooks EXCEPT ![id] = WithoutFunc(@, func)]
    /\ last_import' = NoImport
    /\ UNCHANGED <<index, imported_hooks, logging, pc, call, loop>>

\* ------------------------------------------------------------------- run
\* Mutant of AfterSync: asyncio.run is entered whether or not there is an
\* asynchronous hook.
AfterSync_AlwaysLoop(afuncs) == "loop"

\* What run() does once the for loop over funcs is over: asyncio.run on the
\* asynchronous snapshot when there is one, else it returns.
AfterSync(afuncs) == IF afuncs # <<>> THEN "loop" ELSE "done"

\* Mutant of HasNext: the loop stops one hook short.
HasNext_OneShort(fs, p) == p < Len(fs)

\* The for loop's test: funcs[p] is the next hook to call, if any.
HasNext(fs, p) == p <= Len(fs)

\* Mutant of HookCount: the asynchronous hooks are not counted.
HookCount_SyncOnly(fs, afs) == Len(fs)

\* len(funcs) + len(async_funcs) of the "Running N hooks" message
HookCount(fs, afs) == Len(fs) + Len(afs)

\* Mutant of AfterSorted: the list is sorted in place, list.sort(reverse=
\* True), and stays so in the registry.
AfterSorted_InPlace(entries) == SortedReverse(entries)

\* The list of the registry once run() has read it: sorted() returns a new
\* list and the comprehension another, the list itself is as it was.
AfterSorted(entries) == entries

\* run(id): the two snapshots and the log message.
RunCall(id) ==
    /\ pc = "idle"
    /\ run_id' = id
    /\ at_call' = [hooks |-> hooks[id], async_hooks |-> async_hooks[id]]
    /\ funcs' = SortedReverse(hooks[id])
    /\ async_funcs' = SortedReverse(async_hooks[id])
    /\ logged' = HookCount(funcs', async_funcs')
    /\ pos' = 1
    /\ trace' = <<>>
    /\ outcome' = "none"
    /\ pc' = "sync"
    /\ hooks' = [hooks EXCEPT ![id] = AfterSorted(@)]
    /\ async_hooks' = [async_hooks EXCEPT ![id] = AfterSorted(@)]
    /\ last_import' = NoImport
    /\ UNCHANGED <<index, imported_hooks, logging, loop>>

\* An event of the trace: what happened to the hook at position k of funcs
\* (call, ret, raise) or of async_funcs (start, end, fail, cancel).
Ev(kind, k) == <<kind, k>>

\* Mutant of Launched: only the first hook is launched.
Launched_FirstOnly(afuncs) ==
    IF afuncs = <<>> THEN <<>> ELSE << <<"step", 1>> >>

\* asyncio.gather(*(hook(*args, **kwargs) for hook in hooks)): a task for
\* every hook, in order, the first step of each queued on the loop.
Launched(afuncs) == [i \in 1..Len(afuncs) |-> <<"step", i>>]

\* Mutant of LoopList: the loop goes over the list of the registry as it is
\* now, not over the list run() made when it was called.
LoopList_Live(snapshot, live) == SortedReverse(live)

\* The list "for func in funcs" goes over: the local list run() built from
\* the registry when it was called, whatever the registry holds by now.
LoopList(snapshot, live) == snapshot

\* for func in funcs: func(*args, **kwargs) -- the call of the next hook,
\* or the end of the loop.
SyncNext ==
    /\ pc = "sync"
    /\ IF HasNext(LoopList(funcs, hooks[run_id]), pos)
       THEN /\ trace' = Append(trace, Ev("call", pos))
            /\ pc' = "hook"
            /\ UNCHANGED <<loop, outcome>>
       ELSE /\ pc' = AfterSync(async_funcs)
            /\ IF pc' = "loop"
               \* asyncio.run: the main task runs _run_async_hooks up to the
               \* await; gather has made one task per hook, in order, and
               \* each task's first step is queued.
               THEN /\ tasks' = [i \in 1..Len(async_funcs) |-> "new"]
                    /\ ready' = Launched(async_funcs)
                    /\ ntodo' = 0
                    /\ outer' = "pending"
                    /\ nfinished' = 0
                    /\ stopping' = FALSE
                    /\ UNCHANGED outcome
               ELSE /\ outcome' = "returned"
                    /\ UNCHANGED loop
            /\ UNCHANGED trace
    /\ UNCHANGED <<registry, logging, run_id, at_call, funcs, async_funcs, pos,
                   logged, last_import>>

\* The synchronous hook funcs[pos] returns.
HookReturn ==
    /\ pc = "hook"
    /\ trace' = Append(trace, Ev("ret", pos))
    /\ pos' = pos + 1
    /\ pc' = "sync"
    /\ UNCHANGED <<registry, logging, run_id, at_call, funcs, async_funcs,
                   logged, outcome, loop, last_import>>

\* Mutant of AfterRaise: the exception of a hook is swallowed and the loop
\* goes on.
AfterRaise_Swallowed(afuncs) == "sync"

\* Where run() is after the hook it called has raised: nothing catches the
\* exception, so it leaves run().
AfterRaise(afuncs) == "done"

\* The synchronous hook funcs[pos] raises.
HookRaise ==
    /\ pc = "hook"
    /\ trace' = Append(trace, Ev("raise", pos))
    /\ pc' = AfterRaise(async_funcs)
    /\ IF pc' = "done"
       THEN outcome' = "raised" /\ UNCHANGED <<loop, pos>>
       ELSE /\ pos' = pos + 1
            /\ UNCHANGED <<loop, outcome>>
    /\ UNCHANGED <<registry, logging, run_id, at_call, funcs, async_funcs,
                   logged, last_import>>

\* ------------------------------------------------- the asyncio event loop
\* asyncio.run(self._run_async_hooks(async_funcs)): the loop runs the ready
\* handles first in, first out, one iteration at a time (an iteration runs
\* the handles that were ready when it began).  A handle is the step of a
\* task, the done-callback gather put on a task, the wake-up of the main
\* task, or the callback that stops the loop once the main task is done.

\* The handles left to run in this iteration, a new one beginning when the
\* previous one is over.
Todo == IF ntodo = 0 THEN Len(ready) ELSE ntodo

\* The loop is running handles: it has not stopped at the end of an
\* iteration.
LoopRunning == pc = "loop" /\ ~(stopping /\ ntodo = 0)

Settled(t) == t \in {"done", "failed", "cancelled"}

\* Mutant of OuterAfter: the outer future is resolved by the first child
\* that finishes.
OuterAfter_FirstChild(o, t, n, total) ==
    IF o # "pending" THEN o
    ELSE IF t = "failed" THEN "exception"
    ELSE "result"

\* gather's _done_callback for child i: what becomes of the outer future.
\* A child that failed sets the exception at once (return_exceptions is
\* False); the result is set when the last child has finished.
OuterAfter(o, t, n, total) ==
    IF o # "pending" THEN o
    ELSE IF t = "failed" THEN "exception"
    ELSE IF n + 1 = total THEN "result"
    ELSE "pending"

\* What a step of a hook's coroutine can come to: it finishes, it raises,
\* or it suspends at an await.
StepResults == {"done", "failed", "susp"}

\* The loop runs the step of task i: the hook's coroutine starts (first
\* step) or resumes, and runs to its next await, its end or its exception.
TaskStep(i, result) ==
    /\ LoopRunning
    /\ ready # <<>>
    /\ Head(ready) = <<"step", i>>
    /\ tasks' = [tasks EXCEPT ![i] = result]
    /\ trace' = trace
                 \o (IF tasks[i] = "new" THEN <<Ev("start", i)>> ELSE <<>>)
                 \o (IF result = "done" THEN <<Ev("end", i)>>
                     ELSE IF result = "failed" THEN <<Ev("fail", i)>>
                     ELSE <<>>)
    /\ ready' = IF result = "susp" THEN Tail(ready)
                ELSE Append(Tail(ready), <<"cb", i>>)
    /\ ntodo' = Todo - 1
    /\ UNCHANGED <<registry, logging, pc, run_id, at_call, funcs, async_funcs,
                   pos, logged, outcome, outer, nfinished, stopping,
                   last_import>>

\* What a suspended hook awaits completes (a timer, I/O, another task):
\* the task's wake-up is queued.
Wake(i) ==
    /\ pc = "loop"
    /\ i \in 1..Len(tasks)
    /\ tasks[i] = "susp"
    /\ ~stopping
    /\ tasks' = [tasks EXCEPT ![i] = "woken"]
    /\ ready' = Append(ready, <<"step", i>>)
    /\ UNCHANGED <<registry, logging, pc, call, ntodo, outer, nfinished,
                   stopping, last_import>>

\* The loop runs gather's done-callback of task i.
DoneCallback(i) ==
    /\ LoopRunning
    /\ ready # <<>>
    /\ Head(ready) = <<"cb", i>>
    /\ outer' = OuterAfter(outer, tasks[i], nfinished, Len(tasks))
    /\ nfinished' = IF outer = "pending" /\ tasks[i] # "failed"
                    THEN nfinished + 1 ELSE nfinished
    /\ ready' = IF outer = "pending" /\ outer' # "pending"
                THEN Append(Tail(ready), <<"main">>)
                ELSE Tail(ready)
    /\ ntodo' = Todo - 1
    /\ UNCHANGED <<registry, logging, pc, call, tasks, stopping, last_import>>

\* The main task resumes from "await asyncio.gather(...)" with the result or
\* the exception of the outer future and ends; run_until_complete's
\* callback, which stops the loop, is queued.
MainWake ==
    /\ LoopRunning
    /\ ready # <<>>
    /\ Head(ready) = <<"main">>
    /\ ready' = Append(Tail(ready), <<"stop">>)
    /\ ntodo' = Todo - 1
    /\ UNCHANGED <<registry, logging, pc, call, tasks, outer, nfinished,
                   stopping, last_import>>

\* The loop runs the callback that stops it: it ends with this iteration.
StopCallback ==
    /\ LoopRunning
    /\ ready # <<>>
    /\ Head(ready) = <<"stop">>
    /\ stopping' = TRUE
    /\ ready' = Tail(ready)
    /\ ntodo' = Todo - 1
    /\ UNCHANGED <<registry, logging, pc, call, tasks, outer, nfinished,
                   last_import>>

\* What asyncio.run's clean-up (_cancel_all_tasks) makes of a task: one that
\* is not done is cancelled.
AfterClose(t) == IF Settled(t) THEN t ELSE "cancelled"

RECURSIVE CancelEvents(_, _)
CancelEvents(ts, i) ==
    IF i > Len(ts) THEN <<>>
    ELSE (IF AfterClose(ts[i]) # ts[i] THEN <<Ev("cancel", i)>> ELSE <<>>)
         \o CancelEvents(ts, i + 1)

\* The loop has stopped: asyncio.run cancels what is left, closes the loop
\* and returns the main task's result or raises its exception; run() ends.
LoopClose ==
    /\ pc = "loop"
    /\ stopping
    /\ ntodo = 0
    /\ tasks' = [i \in 1..Len(tasks) |-> AfterClose(tasks[i])]
    /\ trace' = trace \o CancelEvents(tasks, 1)
    /\ ready' = <<>>
    /\ outcome' = IF outer = "exception" THEN "raised" ELSE "returned"
    /\ pc' = "done"
    /\ UNCHANGED <<registry, logging, run_id, at_call, funcs, async_funcs, pos,
                   logged, ntodo, outer, nfinished, stopping, last_import>>

\* The caller of run() goes on after run() has returned or raised.
RunDone ==
    /\ pc = "done"
    /\ pc' = "idle"
    /\ run_id' = "none"
    /\ at_call' = NoCall
    /\ funcs' = <<>>
    /\ async_funcs' = <<>>
    /\ pos' = 0
    /\ logged' = 0
    /\ trace' = <<>>
    /\ outcome' = "none"
    /\ tasks' = <<>>
    /\ ready' = <<>>
    /\ ntodo' = 0
    /\ outer' = "pending"
    /\ nfinished' = 0
    /\ stopping' = FALSE
    /\ UNCHANGED <<registry, logging, last_import>>

\* ---------------------------------------------------------- import_hooks
\* The tree under the root path as os.walk yields it: <<directory relative
\* to the root, file name>>.
Walk ==
    << <<"", "a_hooks.py">>, <<"", "hooks_util.py">>,
       <<"pkg", "b_hooks.py">>, <<"pkg", "c_hooks.py">> >>

\* The suffixes the client passes as file_suffix.
Suffixes == {"_hooks"}

\* The registrations the top-level code of a unit makes, in order.
UnitBody(mod_name) ==
    IF mod_name = "a_hooks" THEN << <<"y", 0, FALSE, "A">> >>
    ELSE IF mod_name = "pkg.b_hooks" THEN << <<"x", 5, TRUE, "B">> >>
    ELSE << <<"x", 0, FALSE, "C">> >>

\* str.endswith
EndsWith(str, suffix) ==
    /\ Len(str) >= Len(suffix)
    /\ SubSeq(str, Len(str) - Len(suffix) + 1, Len(str)) = suffix

\* str.replace(old, new) for a one-character old
RECURSIVE Replace(_, _, _)
Replace(str, old, new) ==
    IF Len(str) = 0 THEN ""
    ELSE (IF SubSeq(str, 1, 1) = old THEN new ELSE SubSeq(str, 1, 1))
         \o Replace(SubSeq(str, 2, Len(str)), old, new)

\* os.path.relpath(os.path.join(root, file), root_path)
RelPath(dir, file) == IF dir = "" THEN file ELSE dir \o "/" \o file

\* os.path.relpath(...).replace(os.sep, '.')[:-3]
ModName(dir, file) ==
    LET dotted == Replace(RelPath(dir, file), "/", ".")
    IN  SubSeq(dotted, 1, Len(dotted) - 3)

\* importlib.import_module(mod_name): the unit's top-level code registers
\* its hooks; a unit that fails raises after `done` of its registrations.
RECURSIVE ImportModule(_, _, _)
ImportModule(reg, body, done) ==
    IF done = 0 \/ body = <<>> THEN reg
    ELSE LET h == Head(body)
         IN  ImportModule(Register(reg, h[1], h[2], h[3], h[4]), Tail(body),
                          done - 1)

\* Mutant of NotImported: the set of imported units is not consulted.
NotImported_Always(mod_name, imported) == TRUE

\* if mod_name not in self.imported_hooks
NotImported(mod_name, imported) == mod_name \notin imported

\* Mutant of AfterFailedLoad: the unit is marked as imported before it is
\* loaded, so that it is marked also when its load fails.
AfterFailedLoad_Marked(imported, mod_name) == imported \cup {mod_name}

\* self.imported_hooks when import_module(mod_name) has raised: the
\* exception leaves import_hooks before self.imported_hooks.add(mod_name).
AfterFailedLoad(imported, mod_name) == imported

\* Mutant of Aborted: the exception of a load is caught and the scan goes
\* on; it is raised again when the scan is over.
Aborted_GoesOn(raised) == FALSE

\* The two for loops are left when import_module has raised: nothing in
\* import_hooks catches the exception.
Aborted(raised) == raised

\* The loop of import_hooks over the files from position i on.  st is
\* [reg, imported, raised, loads]; bad is the set of units whose load fails
\* in this call, each after `done` registrations; loads lists the calls of
\* import_module, <<mod_name, whether it returned>>.
RECURSIVE ImportLoop(_, _, _, _, _)
ImportLoop(st, i, file_suffix, bad, done) ==
    IF i > Len(Walk) \/ Aborted(st.raised) THEN st
    ELSE LET dir == Walk[i][1]
             file == Walk[i][2]
             mod_name == ModName(dir, file)
         IN  IF EndsWith(file, file_suffix \o ".py")
                /\ NotImported(mod_name, st.imported)
             THEN IF mod_name \in bad
                  THEN ImportLoop(
                          [st EXCEPT
                             !.reg = ImportModule(@, UnitBody(mod_name), done),
                             !.loads = Append(@, <<mod_name, FALSE>>),
                             !.imported = AfterFailedLoad(@, mod_name),
                             !.raised = TRUE],
                          i + 1, file_suffix, bad, done)
                  ELSE ImportLoop(
                          [st EXCEPT
                             !.reg = ImportModule(@, UnitBody(mod_name),
                                                  Len(UnitBody(mod_name))),
                             !.loads = Append(@, <<mod_name, TRUE>>),
                             !.imported = @ \cup {mod_name}],
                          i + 1, file_suffix, bad, done)
             ELSE ImportLoop(st, i + 1, file_suffix, bad, done)

Units == {ModName(Walk[i][1], Walk[i][2]) : i \in 1..Len(Walk)}

\* The units whose load fails in a call of import_hooks: none, or one (the
\* scan ends at the first load that fails, so the units that would fail
\* after it do not matter).
Failing == {{}} \cup {{u} : u \in Units}

\* import_hooks(root_path, file_suffix)
ImportHooks(file_suffix, bad, done) ==
    /\ pc = "idle"
    /\ LET st == ImportLoop([reg |-> Reg, imported |-> imported_hooks,
                             raised |-> FALSE, loads |-> <<>>],
                            1, file_suffix, bad, done)
       IN  /\ InBounds(st.reg)
           /\ hooks' = st.reg.hooks
           /\ async_hooks' = st.reg.async_hooks
           /\ index' = st.reg.index
           /\ imported_hooks' = st.imported
           /\ last_import' = [called |-> TRUE, suffix |-> file_suffix,
                              loads |-> st.loads, raised |-> st.raised]
    /\ UNCHANGED <<logging, pc, call, loop>>

Next ==
    \/ \E s \in Sites : Add(s[1], s[2], s[3], s[4])
    \/ \E id \in Ids, f \in Funcs : Remove(id, f)
    \/ \E suffix \in Suffixes, bad \in Failing, done \in 0..1 :
          ImportHooks(suffix, bad, done)
    \/ \E verbose \in BOOLEAN : SetVerbose(verbose)
    \/ \E id \in Ids : RunCall(id)
    \/ SyncNext
    \/ HookReturn
    \/ HookRaise
    \/ \E i \in 1..MaxAsync, r \in StepResults : TaskStep(i, r)
    \/ \E i \in 1..MaxAsync : Wake(i)
    \/ \E i \in 1..MaxAsync : DoneCallback(i)
    \/ MainWake
    \/ StopCallback
    \/ LoopClose
    \/ RunDone

Spec == Init /\ [][Next]_vars

\* ------------------------------------------------------------ properties
\* The places of the trace where the entry e of the synchronous snapshot
\* was called, returned or raised, and where the entry e of the
\* asynchronous snapshot started, ended, failed or was cancelled.
SyncAt(kind, e) ==
    {i \in 1..Len(trace) :
        /\ trace[i][1] = kind
        /\ kind \in {"call", "ret", "raise"}
        /\ funcs[trace[i][2]] = e}

AsyncAt(kind, e) ==
    {i \in 1..Len(trace) :
        /\ trace[i][1] = kind
        /\ kind \in {"start", "end", "fail", "cancel"}
        /\ async_funcs[trace[i][2]] = e}

\* Every place of I is before every place of J, and there is one in I.
AllBefore(I, J) == I # {} /\ \A i \in I, j \in J : i < j

SyncEntries == Range(at_call.hooks)
AsyncEntries == Range(at_call.async_hooks)
Finished == pc = "done"
Returned == pc = "done" /\ outcome = "returned"
Raised == pc = "done" /\ outcome = "raised"

C2_FifoWithinPriority ==
    \A a \in SyncEntries, b \in SyncEntries :
        (a[1] = b[1] /\ a[2] < b[2] /\ SyncAt("call", b) # {})
            => AllBefore(SyncAt("call", a), SyncAt("call", b))

\* C3: when an asynchronous hook of the run starts, every synchronous entry
\* registered under the id has been called and has returned.
C3_SyncBeforeAsync ==
    \A h \in AsyncEntries :
        AsyncAt("start", h) # {}
            => \A e \in SyncEntries :
                  /\ SyncAt("call", e) # {}
                  /\ AllBefore(SyncAt("ret", e), AsyncAt("start", h))

\* A run returned in which an asynchronous hook of higher priority,
\* registered first, started after a synchronous hook had returned.
C3_Witness ==
    /\ Returned
    /\ \E h \in AsyncEntries, e \in SyncEntries :
          /\ h[1] > e[1]
          /\ h[2] < e[2]
          /\ AllBefore(SyncAt("ret", e), AsyncAt("start", h))

\* The places of the trace with an event of one of the kinds.
Events(kinds) == {i \in 1..Len(trace) : trace[i][1] \in kinds}

\* The entries of the registry that are under another id than the run's.
OtherEntries ==
    UNION {Range(hooks[id]) \cup Range(async_hooks[id]) :
              id \in Ids \ {run_id}}

\* C4: a run(id) in which no hook failed has called every synchronous
\* entry and started every asynchronous entry that was registered under id
\* when it was called, each exactly once and each to its end, nothing
\* else and nothing registered under another id, and the count it logged is
\* the number of those entries.
C4_ExactlyTheRegistered ==
    Returned =>
        /\ \A e \in SyncEntries :
              /\ Cardinality(SyncAt("call", e)) = 1
              /\ Cardinality(SyncAt("ret", e)) = 1
        /\ \A h \in AsyncEntries :
              /\ Cardinality(AsyncAt("start", h)) = 1
              /\ Cardinality(AsyncAt("end", h)) = 1
        /\ Cardinality(Events({"call"})) = Len(at_call.hooks)
        /\ Cardinality(Events({"start"})) = Len(at_call.async_hooks)
        /\ Events({"raise", "fail", "cancel"}) = {}
        /\ \A i \in Events({"call"}) : funcs[trace[i][2]] \notin OtherEntries
        /\ \A i \in Events({"start"}) :
              async_funcs[trace[i][2]] \notin OtherEntries
        /\ logged = Len(at_call.hooks) + Len(at_call.async_hooks)

\* A run of id x returned having invoked one synchronous hook and one
\* asynchronous hook while an entry was registered under id y.
C4_Witness ==
    /\ Returned
    /\ run_id = "x"
    /\ Len(at_call.hooks) = 1
    /\ Len(at_call.async_hooks) = 1
    /\ Len(trace) = 4
    /\ logged = 2
    /\ OtherEntries # {}

\* C5: when run(id) returns and no hook has failed, every asynchronous
\* entry registered under id when it was called has started and has run to
\* its end.
C5_FanInBarrier ==
    Returned =>
        /\ Len(tasks) = Len(at_call.async_hooks)
        /\ \A k \in 1..Len(tasks) : tasks[k] = "done"
        /\ \A h \in AsyncEntries :
              AllBefore(AsyncAt("start", h), AsyncAt("end", h))

\* A run returned whose first asynchronous hook ended after the second one
\* had started and ended: it was suspended meanwhile.
C5_Witness ==
    /\ Returned
    /\ Len(tasks) = 2
    /\ \E i, j \in 1..Len(trace) :
          /\ i < j
          /\ trace[i] = Ev("end", 2)
          /\ trace[j] = Ev("end", 1)

\* The loop runs a step that resumes task j after an await.
Resumes(j) == \E r \in StepResults : TaskStep(j, r) /\ tasks[j] = "woken"

\* C6: all the asynchronous hooks are launched before any of them goes on
\* after an await: whenever the loop resumes a hook that had suspended,
\* every asynchronous hook of the run has started.
C6_ConcurrentFanOut ==
    [][\A j \in 1..MaxAsync :
          Resumes(j) => \A i \in 1..Len(tasks) : tasks[i] # "new"]_vars

\* The first asynchronous hook is still suspended when the second one, which
\* started after it, has ended.
C6_Witness ==
    /\ pc = "loop"
    /\ Len(tasks) = 2
    /\ tasks[1] = "susp"
    /\ tasks[2] = "done"
    /\ \E i, j \in 1..Len(trace) :
          /\ i < j
          /\ trace[i] = Ev("start", 1)
          /\ trace[j] = Ev("end", 2)

\* C7: when an asynchronous hook has failed, run raises once all the
\* asynchronous hooks have settled, and no sibling is cancelled: each has
\* run to its own end or its own failure.
C7_FailureAfterAllSettled ==
    (Finished /\ Events({"fail"}) # {}) =>
        /\ outcome = "raised"
        /\ \A k \in 1..Len(tasks) : tasks[k] \in {"done", "failed"}
        /\ Events({"cancel"}) = {}

\* C8: when a synchronous hook raises, run raises at once: the raise is
\* the last event of the run, the hooks ordered before it have returned,
\* no hook ordered after it is called and no asynchronous hook is started.
C8_SyncFailureAborts ==
    \A k \in 1..Len(funcs) :
        Ev("raise", k) \in Range(trace) =>
            /\ Raised
            /\ trace[Len(trace)] = Ev("raise", k)
            /\ \A j \in 1..(k - 1) : Ev("ret", j) \in Range(trace)
            /\ \A j \in (k + 1)..Len(funcs) : Ev("call", j) \notin Range(trace)
            /\ Events({"start"}) = {}
            /\ tasks = <<>>

\* The second of two synchronous hooks raised, in a run whose id has an
\* asynchronous hook.
C8_Witness ==
    /\ Raised
    /\ Len(funcs) = 2
    /\ async_funcs # <<>>
    /\ Ev("raise", 2) \in Range(trace)

\* No entry under id holds the callable f, in either collection.
NoEntryOf(id, f) ==
    \A e \in Range(hooks[id]) \cup Range(async_hooks[id]) : e[3] # f

\* The entries registry-wide, and how many registrations are gone.
AllEntries ==
    UNION {Range(hooks[id]) \cup Range(async_hooks[id]) : id \in Ids}

NumRemoved == index - Cardinality(AllEntries)

\* C9: remove(id, f) leaves no entry under id that holds f, in either
\* collection; such an entry comes back only by a registration; and a run
\* called while there is none invokes f neither as a synchronous nor as an
\* asynchronous hook.
C9_RemovedNotInvoked ==
    /\ [][\A id \in Ids, f \in Funcs :
             /\ Remove(id, f) => NoEntryOf(id, f)'
             /\ (NoEntryOf(id, f) /\ ~NoEntryOf(id, f)') => index' > index
         ]_vars
    /\ [](\A f \in Funcs :
             (\A e \in SyncEntries \cup AsyncEntries : e[3] # f)
                 => /\ \A i \in Events({"call"}) : funcs[trace[i][2]][3] # f
                    /\ \A i \in Events({"start"}) :
                          async_funcs[trace[i][2]][3] # f)

\* Callable A was registered under x twice and removed, and a later run of
\* x has invoked what is left, which is not A.
C9_Witness ==
    /\ Returned
    /\ run_id = "x"
    /\ index = 3
    /\ NumRemoved = 2
    /\ NoEntryOf("x", "A")
    /\ Len(trace) = 2
    /\ SyncEntries \cup AsyncEntries # {}

\* The entries of a list that do not hold f.
Others(entries, f) == {e \in Range(entries) : e[3] # f}

\* The order run() gives the entries of a list, without those that hold f.
OrderOfOthers(entries, f) ==
    SelectSeq(SortedReverse(entries), LAMBDA e : e[3] # f)

\* C10: remove(id, f) can always be called, and it changes nothing but the
\* entries of id that hold f: the other entries of id are the same and in
\* the same execution order, in both collections; the entries of every
\* other id, the index and the imported units are unchanged; and when no
\* entry of id holds f, both collections are unchanged altogether.
C10_RemoveFrame ==
    /\ [](CanCall => \A id \in Ids, f \in Funcs : ENABLED Remove(id, f))
    /\ [][\A id \in Ids, f \in Funcs :
             Remove(id, f) =>
                 /\ Range(hooks'[id]) = Others(hooks[id], f)
                 /\ Range(async_hooks'[id]) = Others(async_hooks[id], f)
                 /\ SortedReverse(hooks'[id]) = OrderOfOthers(hooks[id], f)
                 /\ SortedReverse(async_hooks'[id])
                       = OrderOfOthers(async_hooks[id], f)
                 /\ \A other \in Ids \ {id} :
                       /\ hooks'[other] = hooks[other]
                       /\ async_hooks'[other] = async_hooks[other]
                 /\ index' = index
                 /\ imported_hooks' = imported_hooks
                 /\ NoEntryOf(id, f) =>
                       (hooks' = hooks /\ async_hooks' = async_hooks)
         ]_vars

\* The second of three registrations is gone: the first and the third are
\* left under x, with different callables and priorities.
C10_Witness ==
    /\ index = 3
    /\ NumRemoved = 1
    /\ Len(hooks["x"]) = 2
    /\ {e[2] : e \in Range(hooks["x"])} = {0, 2}
    /\ hooks["x"][1][3] # hooks["x"][2][3]
    /\ hooks["x"][1][1] # hooks["x"][2][1]

\* C11: run(id) can be called for every id whenever the client is idle, and
\* a run called while no entry of either kind was registered under its id
\* (none ever, or all removed) logs a count of 0, invokes nothing, does not
\* enter the event loop and ends by returning.
C11_EmptyRunReturns ==
    /\ pc = "idle" => \A id \in Ids : ENABLED RunCall(id)
    /\ (run_id # "none" /\ at_call = NoCall) =>
          /\ logged = 0
          /\ trace = <<>>
          /\ tasks = <<>>
          /\ pc \in {"sync", "done"}
          /\ pc = "done" => outcome = "returned"

\* A run of x has returned that found no entry under x, the one registered
\* there having been removed, while y has a hook.
C11_Witness ==
    /\ Returned
    /\ run_id = "x"
    /\ at_call = NoCall
    /\ trace = <<>>
    /\ logged = 0
    /\ NumRemoved > 0
    /\ hooks["y"] # <<>>

\* The positions of a list whose entry holds the callable f, and the places
\* of the trace where an entry that holds f was called or started.
EntriesOf(entries, f) == {k \in 1..Len(entries) : entries[k][3] = f}
CallsOf(f) == {i \in Events({"call"}) : funcs[trace[i][2]][3] = f}
StartsOf(f) == {i \in Events({"start"}) : async_funcs[trace[i][2]][3] = f}

\* The list add(id, ..., is_async) pushes onto.
ListOf(hs, ahs, id, is_async) == IF is_async THEN ahs[id] ELSE hs[id]

\* C12: add can be called whenever the registry can (within the bounds of
\* the model) and has no guard of its own; every add, also of a callable
\* that is already registered under the id, makes the list one entry
\* longer, the new entry carrying the callable and a sequence number no
\* entry of the registry has; and a run that returns has called each
\* callable as many times as it had synchronous entries under the id when
\* the run was called, and started it as many times as it had asynchronous
\* ones.
C12_DuplicateRegistration ==
    /\ [](CanCall =>
            \A s \in Sites :
                InBounds(Register(Reg, s[1], s[2], s[3], s[4]))
                    => ENABLED Add(s[1], s[2], s[3], s[4]))
    /\ [][\A s \in Sites :
             Add(s[1], s[2], s[3], s[4]) =>
                 LET old == ListOf(hooks, async_hooks, s[1], s[3])
                     new == ListOf(hooks', async_hooks', s[1], s[3])
                     item == <<s[2], index, s[4]>>
                 IN  /\ Len(new) = Len(old) + 1
                     /\ Range(new) = Range(old) \cup {item}
                     /\ \A e \in AllEntries : e[2] # item[2]
                     /\ Cardinality(EntriesOf(new, s[4]))
                           = Cardinality(EntriesOf(old, s[4])) + 1
         ]_vars
    /\ [](Returned =>
            \A f \in Funcs :
                /\ Cardinality(CallsOf(f))
                      = Cardinality(EntriesOf(at_call.hooks, f))
                /\ Cardinality(StartsOf(f))
                      = Cardinality(EntriesOf(at_call.async_hooks, f)))

\* Callable A was registered twice under x, and a run of x has returned
\* that called it twice, once for each of the two entries.
C12_Witness ==
    /\ Returned
    /\ run_id = "x"
    /\ \E a \in SyncEntries, b \in SyncEntries :
          /\ a[3] = "A"
          /\ b[3] = "A"
          /\ a[2] # b[2]
          /\ Cardinality(SyncAt("call", a)) = 1
          /\ Cardinality(SyncAt("call", b)) = 1
    /\ Cardinality(CallsOf("A")) = 2

\* The units a scan with the suffix considers: those of the files whose
\* name ends with the suffix and ".py".
Matching(file_suffix) ==
    {ModName(Walk[i][1], Walk[i][2]) :
        i \in {k \in 1..Len(Walk) : EndsWith(Walk[k][2], file_suffix \o ".py")}}

\* The units of a list of loads, and whether no unit is in it twice.
Loaded(loads) == {loads[k][1] : k \in 1..Len(loads)}
NoRepeat(loads) == Cardinality(Loaded(loads)) = Len(loads)

\* The number of registrations the units of a set make when loaded.
RECURSIVE BodySize(_)
BodySize(S) ==
    IF S = {} THEN 0
    ELSE LET u == CHOOSE u \in S : TRUE
         IN  Len(UnitBody(u)) + BodySize(S \ {u})

\* C13: a call of import_hooks loads no unit twice, and one that returns
\* has loaded exactly the matching units that were not loaded yet, each
\* once, making their registrations and no other; and a second call with
\* the same suffix, right after a call that returned, loads no unit,
\* returns, and leaves the entries of the registry, the index and the set
\* of imported units as the first call left them.
C13_DiscoveryIdempotent ==
    [][last_import'.called =>
          \A suffix \in Suffixes, bad \in Failing, done \in 0..1 :
              ImportHooks(suffix, bad, done) =>
                  /\ NoRepeat(last_import'.loads)
                  /\ ~last_import'.raised =>
                        /\ Loaded(last_import'.loads)
                              = Matching(suffix) \ imported_hooks
                        /\ imported_hooks'
                              = imported_hooks \cup Matching(suffix)
                        /\ index' - index
                              = BodySize(Matching(suffix) \ imported_hooks)
                        /\ Cardinality(AllEntries') - Cardinality(AllEntries)
                              = index' - index
                  /\ (/\ last_import.called
                      /\ ~last_import.raised
                      /\ last_import.suffix = suffix) =>
                        /\ last_import'.loads = <<>>
                        /\ ~last_import'.raised
                        /\ hooks' = hooks
                        /\ async_hooks' = async_hooks
                        /\ index' = index
                        /\ imported_hooks' = imported_hooks
      ]_vars

\* The client's last call of import_hooks found every matching unit
\* imported already and loaded none: the registry holds the registrations
\* of the three units once each, as the call before left it.
C13_Witness ==
    /\ last_import.called
    /\ ~last_import.raised
    /\ last_import.loads = <<>>
    /\ imported_hooks = Matching(last_import.suffix)
    /\ Cardinality(imported_hooks) = 3
    /\ index = 3
    /\ Cardinality(AllEntries) = 3

\* The units a scan with the suffix comes to load, in the order of the
\* walk: the matching ones that are not in the set of imported units.
Scan(file_suffix, imported) ==
    LET names == [i \in 1..Len(Walk) |-> ModName(Walk[i][1], Walk[i][2])]
        files == [i \in 1..Len(Walk) |-> <<names[i], Walk[i][2]>>]
        todo == SelectSeq(files,
                          LAMBDA f : /\ EndsWith(f[2], file_suffix \o ".py")
                                     /\ f[1] \notin imported)
    IN  [k \in 1..Len(todo) |-> todo[k][1]]

\* The registration r = <<id, priority, is_async, func>> of a unit is in
\* the registry hs, ahs as an entry made since the index was n.
RegisteredSince(hs, ahs, r, n) ==
    \E e \in Range(ListOf(hs, ahs, r[1], r[3])) :
        e[1] = r[2] /\ e[3] = r[4] /\ e[2] >= n

Min(a, b) == IF a < b THEN a ELSE b

\* C14: a call of import_hooks raises exactly when the load of a unit it
\* comes to fails.  Then the failed load is the last one of the call: the
\* units after it in the scan are not loaded; the units loaded before it
\* in the scan, in the order of the walk, are in the set of imported units
\* afterwards and their registrations are in the registry; and no entry
\* that was registered before the call, and none made during it, is taken
\* back.
C14_FailurePropagates ==
    [][last_import'.called =>
          \A suffix \in Suffixes, bad \in Failing, done \in 0..1 :
              ImportHooks(suffix, bad, done) =>
                  LET loads == last_import'.loads
                      todo == Scan(suffix, imported_hooks)
                      n == Len(loads)
                  IN  /\ last_import'.raised <=> (bad \cap Range(todo) # {})
                      /\ last_import'.raised =>
                            /\ n >= 1
                            /\ n <= Len(todo)
                            /\ \A k \in 1..n : loads[k][1] = todo[k]
                            /\ loads[n][1] \in bad
                            /\ ~loads[n][2]
                            /\ \A k \in 1..(n - 1) : loads[k][2]
                            /\ imported_hooks' = imported_hooks
                                  \cup {todo[k] : k \in 1..(n - 1)}
                            /\ \A k \in (n + 1)..Len(todo) :
                                  todo[k] \notin imported_hooks'
                            /\ \A k \in 1..(n - 1) :
                                  \A r \in Range(UnitBody(todo[k])) :
                                      RegisteredSince(hooks', async_hooks', r,
                                                      index)
                            /\ AllEntries \subseteq AllEntries'
                            /\ index' - index
                                  = BodySize({todo[k] : k \in 1..(n - 1)})
                                    + Min(done, Len(UnitBody(todo[n])))
                            /\ Cardinality(AllEntries')
                                  = Cardinality(AllEntries) + index' - index
      ]_vars

\* A call of import_hooks has raised at the second of three matching
\* units: the first one is imported and its hook is registered under y, the
\* registration the second one made before it failed is kept, and the
\* third one was not loaded.
C14_Witness ==
    /\ last_import.called
    /\ last_import.raised
    /\ last_import.loads = << <<"a_hooks", TRUE>>, <<"pkg.b_hooks", FALSE>> >>
    /\ imported_hooks = {"a_hooks"}
    /\ "pkg.c_hooks" \in Matching(last_import.suffix)
    /\ hooks["y"] = << <<0, 0, "A">> >>
    /\ async_hooks["x"] = << <<5, 1, "B">> >>
    /\ hooks["x"] = <<>>
    /\ index = 2

\* C15: of two synchronous entries registered under the id with different
\* priorities, run(id) calls the one with the smaller priority value first
\* (the docstring of add).
C15_LowerPriorityFirst ==
    \A a \in SyncEntries, b \in SyncEntries :
        (a[1] < b[1] /\ SyncAt("call", b) # {})
            => AllBefore(SyncAt("call", a), SyncAt("call", b))

\* The calls and the starts of the trace, in order.
CallSeq == SelectSeq(trace, LAMBDA ev : ev[1] = "call")
StartSeq == SelectSeq(trace, LAMBDA ev : ev[1] = "start")

\* The entries of the run's id that were registered since the run was
\* called, and those registered then that are gone.
AddedSince ==
    (Range(hooks[run_id]) \cup Range(async_hooks[run_id]))
        \ (SyncEntries \cup AsyncEntries)
RemovedSince ==
    (SyncEntries \cup AsyncEntries)
        \ (Range(hooks[run_id]) \cup Range(async_hooks[run_id]))

\* C16: all through a run, whatever add and remove the hooks have called
\* meanwhile, the two lists the run goes over are the entries that were
\* registered under the id when run was called, in run's order; the hooks
\* called so far are the first ones of the synchronous list, in its order,
\* and the hooks started so far the first ones of the asynchronous list;
\* and a run that returns has called and started all of them: an entry
\* added during the run is not invoked in it, one removed during the run
\* still is.
C16_RunSnapshots ==
    run_id # "none" =>
        /\ funcs = SortedReverse(at_call.hooks)
        /\ async_funcs = SortedReverse(at_call.async_hooks)
        /\ Len(CallSeq) <= Len(funcs)
        /\ \A k \in 1..Len(CallSeq) : CallSeq[k] = Ev("call", k)
        /\ Len(StartSeq) <= Len(async_funcs)
        /\ \A k \in 1..Len(StartSeq) : StartSeq[k] = Ev("start", k)
        /\ pc \in {"sync", "hook"} =>
              Len(CallSeq) = (IF pc = "hook" THEN pos ELSE pos - 1)
        /\ Returned =>
              /\ Len(CallSeq) = Len(at_call.hooks)
              /\ Len(StartSeq) = Len(at_call.async_hooks)

\* A run of x has returned having called its two hooks, while the hooks
\* removed one of the two from the registry and registered a new one
\* under x.
C16_Witness ==
    /\ Returned
    /\ run_id = "x"
    /\ Len(at_call.hooks) = 2
    /\ Len(CallSeq) = 2
    /\ \E e \in RemovedSince : SyncAt("call", e) # {}
    /\ \E e \in AddedSince : e \in Range(hooks["x"])

\* The sequence numbers of the entries of the registry, and the number of
\* entries in its lists.
SeqNumbers == {e[2] : e \in AllEntries}
NumEntries == SumLen(hooks, Ids) + SumLen(async_hooks, Ids)

\* C17: in every state no two entries of the registry, over all ids and
\* both collections, have the same sequence number, and every one is below
\* the counter; the counter never goes down, and a step that registers
\* entries gives them the numbers from the counter's old value up to its
\* new one, one each, which are above those of all the entries there were;
\* so two entries of a list always differ in (priority, sequence).
C17_SequenceCounter ==
    /\ [](/\ Cardinality(SeqNumbers) = NumEntries
          /\ \A e \in AllEntries : e[2] >= 0 /\ e[2] < index
          /\ \A id \in Ids :
                \A entries \in {hooks[id], async_hooks[id]} :
                    \A i, j \in 1..Len(entries) :
                        i # j => <<entries[i][1], entries[i][2]>>
                                   # <<entries[j][1], entries[j][2]>>)
    /\ [][/\ index' >= index
          /\ {e[2] : e \in AllEntries' \ AllEntries} = index..(index' - 1)
          /\ \A new \in AllEntries' \ AllEntries :
                \A old \in AllEntries : new[2] > old[2]
         ]_vars

\* Three registrations have been made, under two ids and in both
\* collections, and their entries carry the numbers 0, 1 and 2.
C17_Witness ==
    /\ index = 3
    /\ SeqNumbers = {0, 1, 2}
    /\ hooks["x"] # <<>>
    /\ async_hooks["x"] # <<>>
    /\ hooks["y"] # <<>>

\* The units of a list of loads whose load returned.
Completed(loads) == {loads[k][1] : k \in {j \in 1..Len(loads) : loads[j][2]}}

\* C18: the set of imported units never loses a unit and only import_hooks
\* adds to it; a call adds exactly the units whose load returned in it, so
\* a unit whose load failed is not in the set; a call loads no unit that
\* is in the set; and the call after a call that raised, with the same
\* suffix, begins with the unit that failed, having skipped the units that
\* were loaded before it.
C18_FailedUnitRetried ==
    [][/\ imported_hooks \subseteq imported_hooks'
       /\ imported_hooks' # imported_hooks => last_import'.called
       /\ last_import'.called =>
             \A suffix \in Suffixes, bad \in Failing, done \in 0..1 :
                 ImportHooks(suffix, bad, done) =>
                     LET loads == last_import'.loads
                         before == last_import.loads
                     IN  /\ imported_hooks'
                               = imported_hooks \cup Completed(loads)
                         /\ \A k \in 1..Len(loads) :
                               /\ loads[k][1] \notin imported_hooks
                               /\ ~loads[k][2]
                                     => loads[k][1] \notin imported_hooks'
                         /\ (/\ last_import.called
                             /\ last_import.raised
                             /\ last_import.suffix = suffix) =>
                               /\ loads # <<>>
                               /\ loads[1][1] = before[Len(before)][1]
                               /\ Completed(before) \cap Loaded(loads) = {}
      ]_vars

\* The client's last call of import_hooks has loaded the second and the
\* third unit only, the first one being imported already: the call before
\* loaded the first one and failed at the second, which has now been
\* loaded.
C18_Witness ==
    /\ last_import.called
    /\ ~last_import.raised
    /\ last_import.loads = << <<"pkg.b_hooks", TRUE>>, <<"pkg.c_hooks", TRUE>> >>
    /\ imported_hooks = {"a_hooks", "pkg.b_hooks", "pkg.c_hooks"}
    /\ index = 3
    /\ Cardinality(AllEntries) = 3

\* A step of run() itself: the call, the for loop, the hooks' returns and
\* raises, the event loop, the return to the caller.  What a hook does to
\* the registry meanwhile (add, remove) is a step of its own, which leaves
\* all of these unchanged.
RunStep == <<pc, call, loop>>' # <<pc, call, loop>>

\* C19: no step of run() changes the registry: the entries under every id
\* and their order, in both collections, the index and the set of imported
\* units are as before, whether the run goes on, returns or raises and
\* whether or not its id has entries; and when a run ends with the entries
\* of its id as they were when it was called (no hook has added or removed
\* any), a run of the same id called next makes the same two lists in the
\* same order.
C19_RunFrame ==
    /\ [][RunStep =>
             /\ hooks' = hooks
             /\ async_hooks' = async_hooks
             /\ index' = index
             /\ imported_hooks' = imported_hooks]_vars
    /\ []((/\ Finished
           /\ hooks[run_id] = at_call.hooks
           /\ async_hooks[run_id] = at_call.async_hooks) =>
             /\ SortedReverse(hooks[run_id]) = funcs
             /\ SortedReverse(async_hooks[run_id]) = async_funcs)

\* A run of x that called two hooks has raised, and the heap under x, which
\* is not in run's order, is as it was when the run was called, next to
\* an entry under y.
C19_Witness ==
    /\ Raised
    /\ run_id = "x"
    /\ Len(CallSeq) = 2
    /\ hooks["x"] = at_call.hooks
    /\ async_hooks["x"] = at_call.async_hooks
    /\ hooks["x"] # funcs
    /\ hooks["y"] # <<>>

\* A debug message of the logger is put out: the logger lets it pass and
\* so does the handler.
DebugVisible == logger_level = "DEBUG" /\ handler_level = "DEBUG"

\* C20: set_verbose can be called whenever the client is idle; after
\* set_verbose(v) the level of the logger and the level of its handler are
\* both DEBUG when v is true and both INFO when v is false, whatever they
\* were, so that debug messages are put out exactly when the last call
\* said so; the call changes no entry, nor the index, nor the set of
\* imported units; and nothing but set_verbose changes the two levels,
\* which are the same in every state.
C20_SetVerboseLastWins ==
    /\ [](pc = "idle" => \A v \in BOOLEAN : ENABLED SetVerbose(v))
    /\ [](logger_level = handler_level /\ logger_level \in {"INFO", "DEBUG"})
    /\ [][/\ \A v \in BOOLEAN :
                SetVerbose(v) =>
                    /\ logger_level' = (IF v THEN "DEBUG" ELSE "INFO")
                    /\ handler_level' = (IF v THEN "DEBUG" ELSE "INFO")
                    /\ DebugVisible' = v
                    /\ hooks' = hooks
                    /\ async_hooks' = async_hooks
                    /\ index' = index
                    /\ imported_hooks' = imported_hooks
          /\ logging' # logging =>
                \E v \in BOOLEAN : SetVerbose(v) /\ v # DebugVisible
         ]_vars

\* set_verbose(True) has been called on a registry that holds three
\* entries and an imported unit: debug messages are put out.
C20_Witness ==
    /\ DebugVisible
    /\ pc = "idle"
    /\ index = 3
    /\ Cardinality(AllEntries) = 3
    /\ imported_hooks # {}
====
